---- MODULE Spec2Model ----
(***************************************************************************)
(* Model of the #[component] macro (packages/core-macro/src/component.rs)  *)
(* and of the virtual-node cells and event-handler slot                    *)
(* (packages/core/src/nodes/element.rs).                                   *)
(*                                                                         *)
(* Option<T> is modelled as a sequence of length at most one:              *)
(* None is << >> and Some(x) is <<x>>.                                     *)
(***************************************************************************)
EXTENDS Integers, Sequences, FiniteSets, TLC

VARIABLES
    item_fn,    \* macro: the syn::ItemFn read from the input token stream
    stage,      \* macro: "input" | "body" | "error" | "emitted" | "panicked" | "unreachable"
    diag,       \* macro: Option<message> of the syn::Error returned by parse
    tokens,     \* macro: the TokenStream appended by to_tokens
    callback,   \* EventHandler.callback: the Option inside the RefCell
    borrow,     \* EventHandler.callback: the RefCell's borrow flag (TRUE = borrowed mutably)
    frame,      \* EventHandler::call in progress: Option<[event, before, mark]>
    log,        \* the invocations the callbacks have run: <<callback, event>>
    hist,       \* the completed EventHandler operations, in order
    panicked,   \* Option<[op, reentrant]>: the operation that panicked
    id,         \* VElement.id of each element
    parent,     \* VElement.parent of each element
    mounted_node, \* Listener.mounted_node of each element's listener
    mounts,     \* how many times each element's cells were assigned in this pass
    pass,       \* number of the current render pass
    mount_error \* Option<element>: the double mount that was detected

macroVars   == <<item_fn, stage, diag, tokens>>
handlerVars == <<callback, borrow, frame, log, hist, panicked>>
elementVars == <<id, parent, mounted_node, mounts, pass, mount_error>>
vars        == <<item_fn, stage, diag, tokens, callback, borrow, frame, log,
                 hist, panicked, id, parent, mounted_node, mounts, pass, mount_error>>

NoneV == << >>
Some(x) == <<x>>
IsSome(o) == Len(o) = 1
Unwrap(o) == o[1]

RECURSIVE SeqsUpTo(_, _)
SeqsUpTo(S, n) ==
    IF n = 0 THEN {<< >>}
    ELSE LET shorter == SeqsUpTo(S, n - 1)
         IN  shorter \cup {Append(s, x) : s \in {t \in shorter : Len(t) = n - 1}, x \in S}

(***************************************************************************)
(* The input: a syn::ItemFn                                                *)
(***************************************************************************)
MaxParams == 2

PatKinds  == {"Ident", "Struct", "Tuple"}
Idents    == {"props", "a"}
Types     == [name : {"String", "bool"}, args : {0}]
FnIdents  == {"Greeting", "app"}
Visibilities == {"pub", "inherited"}

\* syn::Pat.  For Pat::Ident, ident/mutability are the PatIdent's own fields;
\* for Pat::Struct and Pat::Tuple they are those of the binding nested inside.
Pats == [kind : PatKinds, ident : Idents, mutability : BOOLEAN]

\* syn::FnArg
Receiver  == [arg |-> "Receiver", attrs |-> << >>,
              pat |-> [kind |-> "Ident", ident |-> "self", mutability |-> FALSE],
              ty |-> [name |-> "Self", args |-> 0]]
TypedArgs == [arg : {"Typed"}, attrs : {<< >>}, pat : Pats, ty : Types]
FnArgs    == TypedArgs \cup {Receiver}

\* syn::Generics: number of lifetime parameters, of type parameters, and the where clause
GenericsSet == [lifetimes : 0..1, types : 0..1, where_clause : {"where"}]

\* syn::ItemFn; its block is a sequence of statements
\* syn::ItemFn { attrs, vis, sig { constness, asyncness, ident, generics, inputs, output }, block }
ItemFns == [attrs : {<<"#[doc]">>}, vis : Visibilities,
            constness : BOOLEAN, asyncness : BOOLEAN,
            ident : FnIdents, generics : GenericsSet,
            inputs : SeqsUpTo(FnArgs, MaxParams),
            output : {"Default", "Element"},
            block : {<<[kind |-> "Block", label |-> "body"]>>}]

(***************************************************************************)
(* validate_component_fn_signature                                         *)
(***************************************************************************)
Ok       == [ok |-> TRUE, msg |-> ""]
Err(m)   == [ok |-> FALSE, msg |-> m]

MsgReturn   == "Must return a <dioxus_core::Element>"
MsgLifetime == "Lifetimes are not supported in components"
MsgAsync    == "Async components are not supported"
MsgConst    == "Const components are not supported"
MsgReceiver == "Receiver parameters are not supported"

HasReceiver(f) == \E i \in DOMAIN f.inputs : f.inputs[i].arg = "Receiver"

\* mutant: the receiver check is left out
validate_without_receiver_check(f) ==
    IF f.output = "Default" THEN Err(MsgReturn)
    ELSE IF f.generics.lifetimes > 0 THEN Err(MsgLifetime)
    ELSE IF f.asyncness THEN Err(MsgAsync)
    ELSE IF f.constness THEN Err(MsgConst)
    ELSE Ok

\* mutant: the const check is left out
validate_without_const_check(f) ==
    IF f.output = "Default" THEN Err(MsgReturn)
    ELSE IF f.generics.lifetimes > 0 THEN Err(MsgLifetime)
    ELSE IF f.asyncness THEN Err(MsgAsync)
    ELSE IF HasReceiver(f) THEN Err(MsgReceiver)
    ELSE Ok

validate_component_fn_signature(f) ==
    IF f.output = "Default" THEN Err(MsgReturn)
    ELSE IF f.generics.lifetimes > 0 THEN Err(MsgLifetime)
    ELSE IF f.asyncness THEN Err(MsgAsync)
    ELSE IF f.constness THEN Err(MsgConst)
    ELSE IF HasReceiver(f) THEN Err(MsgReceiver)
    ELSE Ok

(***************************************************************************)
(* Lowering                                                                *)
(***************************************************************************)
AllowNonSnakeCase == "#[allow(non_snake_case)]"

is_explicit_props_ident(f) ==
    /\ Len(f.inputs) > 0
    /\ f.inputs[1].arg = "Typed"
    /\ f.inputs[1].pat.kind = "Ident"
    /\ f.inputs[1].pat.ident = "props"

\* mutant: matches a tuple pattern instead of a struct pattern
has_tuple_parameter_pattern(f) ==
    /\ Len(f.inputs) > 0
    /\ f.inputs[1].arg = "Typed"
    /\ f.inputs[1].pat.kind = "Tuple"

has_struct_parameter_pattern(f) ==
    /\ Len(f.inputs) > 0
    /\ f.inputs[1].arg = "Typed"
    /\ f.inputs[1].pat.kind = "Struct"

\* mutant: the attribute list is overwritten instead of pushed to
prefer_camel_case_replacing_attrs(f) ==
    [f EXCEPT !.attrs = <<AllowNonSnakeCase>>,
              !.block = <<[kind |-> "Marker", ident |-> f.ident]>> \o f.block]

\* { { struct #ident {} } #block }
prefer_camel_case_for_fn_ident(f) ==
    [f EXCEPT !.attrs = Append(f.attrs, AllowNonSnakeCase),
              !.block = <<[kind |-> "Marker", ident |-> f.ident]>> \o f.block]

\* format!("{ident}Props")
StructIdent(f) == f.ident \o "Props"

\* `f.mutability = None` on a Pat::Ident; any other pattern is left as written
StripMutability(pat) ==
    IF pat.kind = "Ident" THEN [pat EXCEPT !.mutability = FALSE] ELSE pat

\* The tokens `#(#attrs)* #vis #arg_pat #colon_token #ty` of one field.
\* Defined for FnArg::Typed only: the receiver arm is unreachable!().
make_prop_struct_field(a, vis) ==
    [attrs |-> a.attrs, vis |-> vis, pat |-> StripMutability(a.pat), ty |-> a.ty]

\* The tokens `mut #pat` of one binding of the destructuring statement.
rebind_mutability(a) ==
    Some([mut_token |-> TRUE, pat |-> StripMutability(a.pat)])

\* filter_map over the inputs
RECURSIVE FilterMapRebind(_)
FilterMapRebind(inputs) ==
    IF inputs = << >> THEN << >>
    ELSE LET r == rebind_mutability(Head(inputs))
         IN  (IF IsSome(r) THEN <<Unwrap(r)>> ELSE << >>) \o FilterMapRebind(Tail(inputs))

\* syn parses `mut #pat` inside a struct pattern as a FieldPat: after `mut`
\* only an identifier is accepted.
FieldPatParses(b) == b.pat.kind = "Ident" /\ ~b.pat.mutability
ParseFieldPat(b)  == [ident |-> b.pat.ident,
                      mutability |-> b.mut_token \/ b.pat.mutability]

\* syn parses `#vis #arg_pat : #ty` as a named Field: the name is an identifier.
FieldParses(t) == t.pat.kind = "Ident" /\ ~t.pat.mutability
ParseField(t)  == [attrs |-> t.attrs, vis |-> t.vis, ident |-> t.pat.ident, ty |-> t.ty]

\* `mut __props: #struct_ident #ty_generics`
PropsArg(f) ==
    [arg |-> "Typed", attrs |-> << >>,
     pat |-> [kind |-> "Ident", ident |-> "__props", mutability |-> TRUE],
     ty |-> [name |-> StructIdent(f), args |-> f.generics.types]]

\* mutant: the props argument is generated even when there are no inputs
comp_fn_always_props(f) ==
    LET struct_field_names == FilterMapRebind(f.inputs)
        parses == \A i \in DOMAIN struct_field_names : FieldPatParses(struct_field_names[i])
        expanded_struct ==
            IF f.inputs = << >> THEN << >>
            ELSE <<[kind |-> "Let", struct_ident |-> StructIdent(f),
                    bindings |-> [i \in DOMAIN struct_field_names |->
                                     ParseFieldPat(struct_field_names[i])]]>>
    IN  IF ~parses THEN NoneV
        ELSE Some([attrs |-> Append(f.attrs, AllowNonSnakeCase),
                   vis |-> f.vis,
                   constness |-> FALSE, asyncness |-> FALSE,
                   ident |-> f.ident,
                   generics |-> f.generics,
                   inputs |-> <<PropsArg(f)>>,
                   output |-> f.output,
                   block |-> <<[kind |-> "Marker", ident |-> f.ident]>>
                             \o expanded_struct \o f.block])

\* Option<ItemFn>: None when parse_quote! panics on the generated tokens
comp_fn(f) ==
    LET struct_field_names == FilterMapRebind(f.inputs)
        props_ident == IF f.inputs = << >> THEN << >> ELSE <<PropsArg(f)>>
        parses == \A i \in DOMAIN struct_field_names : FieldPatParses(struct_field_names[i])
        expanded_struct ==
            IF f.inputs = << >> THEN << >>
            ELSE <<[kind |-> "Let", struct_ident |-> StructIdent(f),
                    bindings |-> [i \in DOMAIN struct_field_names |->
                                     ParseFieldPat(struct_field_names[i])]]>>
    IN  IF ~parses THEN NoneV
        ELSE Some([attrs |-> Append(f.attrs, AllowNonSnakeCase),
                   vis |-> f.vis,
                   constness |-> FALSE, asyncness |-> FALSE,
                   ident |-> f.ident,
                   generics |-> f.generics,
                   inputs |-> props_ident,
                   output |-> f.output,
                   block |-> <<[kind |-> "Marker", ident |-> f.ident]>>
                             \o expanded_struct \o f.block])

\* Option<ItemStruct>: None when parse_quote! panics on the generated tokens
props_struct(f) ==
    LET struct_fields == [i \in DOMAIN f.inputs |-> make_prop_struct_field(f.inputs[i], f.vis)]
        parses == \A i \in DOMAIN struct_fields : FieldParses(struct_fields[i])
    IN  IF ~parses THEN NoneV
        ELSE Some([attrs |-> <<"#[derive(Props, Clone, PartialEq)]",
                               "#[allow(non_camel_case_types)]">>,
                   vis |-> f.vis,
                   ident |-> StructIdent(f),
                   generics |-> f.generics,
                   fields |-> [i \in DOMAIN struct_fields |-> ParseField(struct_fields[i])]])

\* format!("Properties for the [`{}`] component.", ident), written without the backquotes
DocFor(f) == "Properties for the [" \o f.ident \o "] component."

NoTokens == [panicked |-> FALSE, doc |-> NoneV, props_struct |-> NoneV, comp_fn |-> NoneV]
Panic    == [panicked |-> TRUE,  doc |-> NoneV, props_struct |-> NoneV, comp_fn |-> NoneV]

\* <ComponentBody as ToTokens>::to_tokens
to_tokens(f) ==
    IF is_explicit_props_ident(f) \/ has_struct_parameter_pattern(f)
    THEN [NoTokens EXCEPT !.comp_fn = Some(prefer_camel_case_for_fn_ident(f))]
    ELSE LET c == comp_fn(f)
         IN  IF ~IsSome(c) THEN Panic
             ELSE IF f.inputs = << >>
                  THEN [NoTokens EXCEPT !.comp_fn = c]
                  ELSE LET p == props_struct(f)
                       IN  IF ~IsSome(p) THEN Panic
                           ELSE [NoTokens EXCEPT !.doc = Some(DocFor(f)),
                                                 !.props_struct = p,
                                                 !.comp_fn = c]

\* `let FnArg::Typed(pt) = f else { unreachable!() }` in make_prop_struct_field
\* and rebind_mutability
ReceiverArm(a) == a.arg # "Typed"

\* to_tokens runs into unreachable!(): comp_fn and props_struct map the two
\* functions over every input unless one of the bypass cases returned first
MeetsUnreachable(f) ==
    /\ ~(is_explicit_props_ident(f) \/ has_struct_parameter_pattern(f))
    /\ \E i \in DOMAIN f.inputs : ReceiverArm(f.inputs[i])

(***************************************************************************)
(* The macro as a state machine: parse (validation), then to_tokens        *)
(***************************************************************************)
\* <ComponentBody as Parse>::parse
Parse ==
    /\ stage = "input"
    /\ LET r == validate_component_fn_signature(item_fn)
       IN  IF r.ok
           THEN (stage' = "body") /\ (diag' = NoneV)
           ELSE (stage' = "error") /\ (diag' = Some(r.msg))
    /\ UNCHANGED <<item_fn, tokens>>
    /\ UNCHANGED handlerVars
    /\ UNCHANGED elementVars

ToTokens ==
    /\ stage = "body"
    /\ tokens' = IF MeetsUnreachable(item_fn) THEN Panic ELSE to_tokens(item_fn)
    /\ stage' = IF MeetsUnreachable(item_fn) THEN "unreachable"
                ELSE IF tokens'.panicked THEN "panicked" ELSE "emitted"
    /\ UNCHANGED <<item_fn, diag>>
    /\ UNCHANGED handlerVars
    /\ UNCHANGED elementVars

(***************************************************************************)
(* EventHandler: a RefCell<Option<callback>>                               *)
(***************************************************************************)
MaxOps == 4

Callbacks == {"cb1", "cb2"}
Events    == {"e1", "e2"}

Entry(op, arg, before, after, ran) ==
    [op |-> op, arg |-> arg, before |-> before, after |-> after, ran |-> ran]

\* A panic unwinds out of the running callback and of call(): the RefMut is dropped.
BorrowPanic(op) ==
    /\ panicked' = Some([op |-> op, reentrant |-> IsSome(frame)])
    /\ frame' = NoneV
    /\ borrow' = FALSE
    /\ UNCHANGED <<callback, log, hist>>

\* handler.callback.replace(Some(cb)): the pub field is how a callback gets in
SetCallback(cb) ==
    /\ ~IsSome(panicked)
    /\ Len(hist) < MaxOps
    /\ IF borrow
       THEN BorrowPanic("set")
       ELSE /\ callback' = Some(cb)
            /\ hist' = Append(hist, Entry("set", cb, callback, Some(cb), << >>))
            /\ UNCHANGED <<borrow, frame, log, panicked>>
    /\ UNCHANGED macroVars
    /\ UNCHANGED elementVars

\* mutant: the RefMut is dropped before the callback is entered
Call_borrow_dropped(event) ==
    /\ ~IsSome(panicked)
    /\ Len(hist) < MaxOps
    /\ IF borrow
       THEN BorrowPanic("call")
       ELSE IF IsSome(callback)
            THEN /\ borrow' = FALSE
                 /\ frame' = Some([event |-> event, before |-> callback, mark |-> Len(log)])
                 /\ log' = Append(log, <<Unwrap(callback), event>>)
                 /\ UNCHANGED <<callback, hist, panicked>>
            ELSE /\ hist' = Append(hist, Entry("call", event, callback, callback, << >>))
                 /\ UNCHANGED <<callback, borrow, frame, log, panicked>>
    /\ UNCHANGED macroVars
    /\ UNCHANGED elementVars

\* mutant: take() instead of as_mut(), the callback is moved out of the slot
Call_take(event) ==
    /\ ~IsSome(panicked)
    /\ Len(hist) < MaxOps
    /\ IF borrow
       THEN BorrowPanic("call")
       ELSE IF IsSome(callback)
            THEN /\ borrow' = TRUE
                 /\ frame' = Some([event |-> event, before |-> callback, mark |-> Len(log)])
                 /\ log' = Append(log, <<Unwrap(callback), event>>)
                 /\ callback' = NoneV
                 /\ UNCHANGED <<hist, panicked>>
            ELSE /\ hist' = Append(hist, Entry("call", event, callback, callback, << >>))
                 /\ UNCHANGED <<callback, borrow, frame, log, panicked>>
    /\ UNCHANGED macroVars
    /\ UNCHANGED elementVars

\* EventHandler::call up to the point where the callback starts running:
\* borrow_mut(), as_mut(), and either the callback is entered or call returns
Call(event) ==
    /\ ~IsSome(panicked)
    /\ Len(hist) < MaxOps
    /\ IF borrow
       THEN BorrowPanic("call")
       ELSE IF IsSome(callback)
            THEN /\ borrow' = TRUE
                 /\ frame' = Some([event |-> event, before |-> callback, mark |-> Len(log)])
                 /\ log' = Append(log, <<Unwrap(callback), event>>)
                 /\ UNCHANGED <<callback, hist, panicked>>
            ELSE /\ hist' = Append(hist, Entry("call", event, callback, callback, << >>))
                 /\ UNCHANGED <<callback, borrow, frame, log, panicked>>
    /\ UNCHANGED macroVars
    /\ UNCHANGED elementVars

\* the callback returns and call() drops the RefMut
CallbackReturn ==
    /\ ~IsSome(panicked)
    /\ IsSome(frame)
    /\ LET fr == Unwrap(frame)
       IN  hist' = Append(hist, Entry("call", fr.event, fr.before, callback,
                                      SubSeq(log, fr.mark + 1, Len(log))))
    /\ frame' = NoneV
    /\ borrow' = FALSE
    /\ UNCHANGED <<callback, log, panicked>>
    /\ UNCHANGED macroVars
    /\ UNCHANGED elementVars

\* mutant: take().unwrap(), releasing an empty slot panics
Release_unwrap ==
    /\ ~IsSome(panicked)
    /\ Len(hist) < MaxOps
    /\ IF borrow
       THEN BorrowPanic("release")
       ELSE IF IsSome(callback)
            THEN /\ callback' = NoneV
                 /\ hist' = Append(hist, Entry("release", "-", callback, NoneV, << >>))
                 /\ UNCHANGED <<borrow, frame, log, panicked>>
            ELSE /\ panicked' = Some([op |-> "release", reentrant |-> FALSE])
                 /\ UNCHANGED <<callback, borrow, frame, log, hist>>
    /\ UNCHANGED macroVars
    /\ UNCHANGED elementVars

\* EventHandler::release: self.callback.replace(None)
Release ==
    /\ ~IsSome(panicked)
    /\ Len(hist) < MaxOps
    /\ IF borrow
       THEN BorrowPanic("release")
       ELSE /\ callback' = NoneV
            /\ hist' = Append(hist, Entry("release", "-", callback, NoneV, << >>))
            /\ UNCHANGED <<borrow, frame, log, panicked>>
    /\ UNCHANGED macroVars
    /\ UNCHANGED elementVars

(***************************************************************************)
(* VElement / Listener cells and mounting                                  *)
(***************************************************************************)
NumElements == 2
MaxId       == 3
MaxPass     == 2

Elements   == 1..NumElements
ElementIds == 1..MaxId

UsedIds == {Unwrap(id[e]) : e \in {x \in Elements : IsSome(id[x])}}

\* mutant: the cells are assigned without the assertion
Mount_overwrite(e, i, p) ==
    /\ ~IsSome(mount_error)
    /\ i \notin UsedIds
    /\ id' = [id EXCEPT ![e] = Some(i)]
    /\ parent' = [parent EXCEPT ![e] = Some(p)]
    /\ mounted_node' = [mounted_node EXCEPT ![e] = Some(i)]
    /\ mounts' = [mounts EXCEPT ![e] = @ + 1]
    /\ UNCHANGED <<pass, mount_error>>
    /\ UNCHANGED macroVars
    /\ UNCHANGED handlerVars

\* Mounting an element: each cell is asserted to be None and then assigned
Mount(e, i, p) ==
    /\ ~IsSome(mount_error)
    /\ i \notin UsedIds
    /\ IF IsSome(id[e]) \/ IsSome(parent[e]) \/ IsSome(mounted_node[e])
       THEN /\ mount_error' = Some(e)
            /\ UNCHANGED <<id, parent, mounted_node, mounts, pass>>
       ELSE /\ id' = [id EXCEPT ![e] = Some(i)]
            /\ parent' = [parent EXCEPT ![e] = Some(p)]
            /\ mounted_node' = [mounted_node EXCEPT ![e] = Some(i)]
            /\ mounts' = [mounts EXCEPT ![e] = @ + 1]
            /\ UNCHANGED <<pass, mount_error>>
    /\ UNCHANGED macroVars
    /\ UNCHANGED handlerVars

\* The arena is reset and the next pass builds its elements anew
NewPass ==
    /\ ~IsSome(mount_error)
    /\ pass < MaxPass
    /\ pass' = pass + 1
    /\ id' = [e \in Elements |-> NoneV]
    /\ parent' = [e \in Elements |-> NoneV]
    /\ mounted_node' = [e \in Elements |-> NoneV]
    /\ mounts' = [e \in Elements |-> 0]
    /\ UNCHANGED mount_error
    /\ UNCHANGED macroVars
    /\ UNCHANGED handlerVars

(***************************************************************************)
(* Specifications                                                          *)
(***************************************************************************)
MacroStart ==
    /\ stage = "input"
    /\ diag = NoneV
    /\ tokens = NoTokens

\* EventHandler::default
HandlerDefault ==
    /\ callback = NoneV
    /\ borrow = FALSE
    /\ frame = NoneV
    /\ log = << >>
    /\ hist = << >>
    /\ panicked = NoneV

\* VElement and Listener as constructed: every cell holds None
ElementNew ==
    /\ id = [e \in Elements |-> NoneV]
    /\ parent = [e \in Elements |-> NoneV]
    /\ mounted_node = [e \in Elements |-> NoneV]
    /\ mounts = [e \in Elements |-> 0]
    /\ pass = 1
    /\ mount_error = NoneV

DefaultItemFn ==
    [attrs |-> <<"#[doc]">>, vis |-> "pub", constness |-> FALSE, asyncness |-> FALSE,
     ident |-> "app", generics |-> [lifetimes |-> 0, types |-> 0, where_clause |-> "where"],
     inputs |-> << >>, output |-> "Element",
     block |-> <<[kind |-> "Block", label |-> "body"]>>]

InitMacro   == item_fn \in ItemFns /\ MacroStart /\ HandlerDefault /\ ElementNew
InitHandler == item_fn = DefaultItemFn /\ MacroStart /\ HandlerDefault /\ ElementNew
InitElement == item_fn = DefaultItemFn /\ MacroStart /\ HandlerDefault /\ ElementNew

NextMacro   == Parse \/ ToTokens
NextHandler == (\E cb \in Callbacks : SetCallback(cb))
                 \/ (\E ev \in Events : Call(ev))
                 \/ CallbackReturn
                 \/ Release
NextElement == (\E e \in Elements, i \in ElementIds, p \in ElementIds : Mount(e, i, p))
                 \/ NewPass

SpecMacro   == InitMacro /\ [][NextMacro]_vars
SpecHandler == InitHandler /\ [][NextHandler]_vars
SpecElement == InitElement /\ [][NextElement]_vars

(***************************************************************************)
(* Properties of the macro (checked under SpecMacro)                       *)
(***************************************************************************)
Lowered == stage \in {"emitted", "panicked"}

\* The two bypass cases as the documentation words them: the sole parameter is
\* the identifier binding `props`, or the first parameter is a struct pattern.
SoleProps(f) ==
    /\ Len(f.inputs) = 1
    /\ f.inputs[1].arg = "Typed"
    /\ f.inputs[1].pat.kind = "Ident"
    /\ f.inputs[1].pat.ident = "props"
FirstIsStruct(f) ==
    /\ Len(f.inputs) > 0
    /\ f.inputs[1].arg = "Typed"
    /\ f.inputs[1].pat.kind = "Struct"
DocumentedBypass(f) == SoleProps(f) \/ FirstIsStruct(f)

\* C1: every validated, non-empty, non-bypass signature lowers to a props
\* record <component>Props with one field per parameter, in order, named by
\* the parameter's binding without mutability and typed by the declared type.
C1_PropsRecordMirrorsParameters ==
    (Lowered /\ item_fn.inputs # << >> /\ ~DocumentedBypass(item_fn)) =>
        /\ IsSome(tokens.props_struct)
        /\ LET ps == Unwrap(tokens.props_struct)
           IN  /\ ps.ident = item_fn.ident \o "Props"
               /\ Len(ps.fields) = Len(item_fn.inputs)
               /\ \A i \in DOMAIN item_fn.inputs :
                     /\ ps.fields[i].ident = item_fn.inputs[i].pat.ident
                     /\ ps.fields[i].ty = item_fn.inputs[i].ty

\* C2: with a sole `props` parameter or a struct pattern first, no props
\* record is emitted and the emitted function keeps the input's parameter list.
C2_BypassKeepsParameters ==
    (Lowered /\ DocumentedBypass(item_fn)) =>
        /\ stage = "emitted"
        /\ tokens.props_struct = NoneV
        /\ tokens.doc = NoneV
        /\ IsSome(tokens.comp_fn)
        /\ Unwrap(tokens.comp_fn).inputs = item_fn.inputs

C2_Witness ==
    /\ stage = "emitted"
    /\ FirstIsStruct(item_fn)
    /\ Len(item_fn.inputs) = 2
    /\ item_fn.inputs[2].pat.mutability

\* C3: an empty parameter list lowers to no props record and no doc comment;
\* the emitted function has no parameter and no destructuring statement and
\* keeps the name, visibility, generics and return type.
C3_EmptyParameterList ==
    (Lowered /\ item_fn.inputs = << >>) =>
        /\ stage = "emitted"
        /\ tokens.props_struct = NoneV
        /\ tokens.doc = NoneV
        /\ IsSome(tokens.comp_fn)
        /\ LET c == Unwrap(tokens.comp_fn)
           IN  /\ c.inputs = << >>
               /\ \A i \in DOMAIN c.block : c.block[i].kind # "Let"
               /\ c.ident = item_fn.ident
               /\ c.vis = item_fn.vis
               /\ c.generics = item_fn.generics
               /\ c.output = item_fn.output

C3_Witness ==
    /\ stage = "emitted"
    /\ item_fn.inputs = << >>
    /\ item_fn.generics.types = 1
    /\ item_fn.vis = "inherited"

\* C4: each of the five violations on its own is rejected with its own
\* message, the five messages differ pairwise, and validation succeeds exactly
\* when none of the five conditions holds.
Violations(f) ==
    {k \in 1..5 : \/ k = 1 /\ f.output = "Default"
                  \/ k = 2 /\ f.generics.lifetimes > 0
                  \/ k = 3 /\ f.asyncness
                  \/ k = 4 /\ f.constness
                  \/ k = 5 /\ \E i \in DOMAIN f.inputs : f.inputs[i].arg = "Receiver"}
Diagnostic == <<MsgReturn, MsgLifetime, MsgAsync, MsgConst, MsgReceiver>>

C4_ValidationRejectsEachViolation ==
    (stage # "input") =>
        /\ (Violations(item_fn) = {}) <=> (diag = NoneV /\ stage # "error")
        /\ (Violations(item_fn) # {}) <=> (IsSome(diag) /\ stage = "error")
        /\ \A k \in 1..5 : Violations(item_fn) = {k} => diag = Some(Diagnostic[k])
        /\ \A j, k \in 1..5 : j # k => Diagnostic[j] # Diagnostic[k]

C4_Witness ==
    /\ stage = "error"
    /\ Violations(item_fn) = {4}
    /\ Len(item_fn.inputs) = 2

\* C5: the emitted function takes exactly `mut __props: <component>Props` when
\* the input has parameters and is not a bypass case, and exactly the original
\* parameters in the bypass cases and in the empty case.
C5_EmittedParameterList ==
    (stage = "emitted") =>
        /\ IsSome(tokens.comp_fn)
        /\ LET c == Unwrap(tokens.comp_fn)
           IN  IF item_fn.inputs # << >> /\ ~DocumentedBypass(item_fn)
               THEN /\ Len(c.inputs) = 1
                    /\ c.inputs[1].pat = [kind |-> "Ident", ident |-> "__props",
                                          mutability |-> TRUE]
                    /\ c.inputs[1].ty.name = item_fn.ident \o "Props"
               ELSE c.inputs = item_fn.inputs

\* C9: a function of two or more parameters whose first parameter is the
\* identifier binding `props` is fully lowered: a props record is generated
\* and the function takes the single __props parameter.
C9_PropsBypassOnlyWhenSole ==
    (/\ Lowered
     /\ Len(item_fn.inputs) >= 2
     /\ item_fn.inputs[1].pat.kind = "Ident"
     /\ item_fn.inputs[1].pat.ident = "props") =>
        /\ IsSome(tokens.props_struct)
        /\ IsSome(tokens.comp_fn)
        /\ Len(Unwrap(tokens.comp_fn).inputs) = 1
        /\ Unwrap(tokens.comp_fn).inputs[1].pat.ident = "__props"

\* C10: in a fully lowered component the destructuring statement binds one
\* name per parameter, in order, and a binding is `mut` exactly when the
\* parameter was declared `mut`.
LetStatements(c) == {i \in DOMAIN c.block : c.block[i].kind = "Let"}

C10_MutReAddedWhereDeclared ==
    (stage = "emitted" /\ IsSome(tokens.props_struct)) =>
        LET c == Unwrap(tokens.comp_fn)
        IN  /\ Cardinality(LetStatements(c)) = 1
            /\ \A s \in LetStatements(c) :
                  /\ Len(c.block[s].bindings) = Len(item_fn.inputs)
                  /\ \A i \in DOMAIN item_fn.inputs :
                        /\ c.block[s].bindings[i].ident = item_fn.inputs[i].pat.ident
                        /\ c.block[s].bindings[i].mutability
                              = item_fn.inputs[i].pat.mutability

\* C11: on every output path the emitted function holds the original body
\* block once and unchanged, after the marker type named after the component
\* and (full lowering only) the destructuring statement; the only attribute
\* added is the non_snake_case allow; name, visibility, generics, where
\* clause, return type and the attributes already there are unchanged.
BodyStatements(c) == {i \in DOMAIN c.block : c.block[i].kind = "Block"}
FullyLowered == IsSome(tokens.props_struct)

C11_BodyWrappedNotModified ==
    (stage = "emitted") =>
        /\ IsSome(tokens.comp_fn)
        /\ LET c == Unwrap(tokens.comp_fn)
               n == Len(c.block)
           IN  /\ Cardinality(BodyStatements(c)) = 1
               /\ <<c.block[n]>> = item_fn.block
               /\ c.block[1] = [kind |-> "Marker", ident |-> item_fn.ident]
               /\ n = IF FullyLowered THEN 3 ELSE 2
               /\ FullyLowered => c.block[2].kind = "Let"
               /\ c.attrs = item_fn.attrs \o <<AllowNonSnakeCase>>
               /\ c.ident = item_fn.ident
               /\ c.vis = item_fn.vis
               /\ c.generics = item_fn.generics
               /\ c.generics.where_clause = item_fn.generics.where_clause
               /\ c.output = item_fn.output

C11_Witness ==
    /\ stage = "emitted"
    /\ FullyLowered
    /\ Len(item_fn.inputs) = 2
    /\ item_fn.generics.types = 1

\* C12: a ComponentBody exists only after validation succeeded and holds the
\* parsed function unchanged; a rejected function produces no output; and
\* lowering never runs into the unreachable!() receiver arms.
HasBody == stage \in {"body", "emitted", "panicked", "unreachable"}

C12_ValidationGatesLowering ==
    /\ [](HasBody => Violations(item_fn) = {})
    /\ [](stage = "error" => tokens = NoTokens /\ Violations(item_fn) # {})
    /\ [](tokens # NoTokens => HasBody)
    /\ [](stage # "unreachable")
    /\ [][item_fn' = item_fn]_vars

C12_Witness ==
    /\ stage = "error"
    /\ Violations(item_fn) = {5}
    /\ Len(item_fn.inputs) = 2
    /\ item_fn.inputs[2].arg = "Receiver"

(***************************************************************************)
(* Properties of EventHandler (checked under SpecHandler)                  *)
(***************************************************************************)
Calls      == {i \in DOMAIN hist : hist[i].op = "call"}
Releases   == {i \in DOMAIN hist : hist[i].op = "release"}
OccupiedCalls == {i \in Calls : IsSome(hist[i].before)}
\* a call is under way, or was when its callback panicked
CallUnderWay == IF IsSome(frame) \/ IsSome(panicked) THEN 1 ELSE 0

\* C6: for the operations issued on the handler one after the other, a call
\* on an empty slot runs nothing, does not fail and leaves the slot empty; a
\* call on an occupied slot runs that callback once with the event and leaves
\* it in the slot; so the invocations number the calls made on an occupied slot.
C6_CallInvokesOncePerOccupiedCall ==
    /\ \A i \in Calls :
          IF IsSome(hist[i].before)
          THEN /\ hist[i].ran = <<<<Unwrap(hist[i].before), hist[i].arg>>>>
               /\ hist[i].after = hist[i].before
          ELSE /\ hist[i].ran = << >>
               /\ hist[i].after = NoneV
    /\ IsSome(panicked) => Unwrap(panicked).reentrant /\ IsSome(callback)
    /\ Len(log) = Cardinality(OccupiedCalls) + CallUnderWay

C6_Witness ==
    /\ \E i, j \in Calls : i < j /\ IsSome(hist[i].before) /\ ~IsSome(hist[j].before)
    /\ Len(log) = 1

\* C7: outside a running callback release always succeeds and leaves the slot
\* empty, a second release changes nothing, and every call after a release
\* with no callback set in between runs nothing.
NoSetBetween(i, j) == \A k \in (i + 1)..(j - 1) : hist[k].op # "set"

C7_ReleaseIdempotent ==
    /\ \A i \in Releases : hist[i].after = NoneV
    /\ \A i \in DOMAIN hist : i + 1 \in DOMAIN hist => hist[i + 1].before = hist[i].after
    /\ \A i \in Releases : (i + 1) \in Releases => hist[i + 1].after = hist[i].after
    /\ \A i \in Releases : \A j \in Calls :
          (i < j /\ NoSetBetween(i, j)) => hist[j].ran = << >> /\ hist[j].after = NoneV
    /\ IsSome(panicked) => Unwrap(panicked).reentrant

C7_Witness ==
    \E i \in Releases :
        /\ IsSome(hist[i].before)
        /\ (i + 1) \in Releases
        /\ (i + 2) \in Calls

\* C13: call keeps the slot mutably borrowed for as long as the callback
\* runs, so one invocation at most is in progress; a call or release issued
\* from inside the running callback panics on the borrow and neither runs the
\* callback again nor clears the slot.
Running == IsSome(frame)

C13_BorrowHeldWhileCallbackRuns ==
    /\ [](Running <=> borrow)
    /\ [](Running => /\ Len(log) = Unwrap(frame).mark + 1
                     /\ callback = Unwrap(frame).before)
    /\ [][(Running /\ hist' = hist) =>
             /\ IsSome(panicked')
             /\ Unwrap(panicked').reentrant
             /\ Unwrap(panicked').op \in {"call", "release", "set"}
             /\ log' = log
             /\ callback' = callback
             /\ IsSome(callback')]_vars

C13_Witness ==
    /\ IsSome(panicked)
    /\ Unwrap(panicked) = [op |-> "release", reentrant |-> TRUE]
    /\ IsSome(callback)
    /\ Len(log) = 2

(***************************************************************************)
(* Properties of the element cells (checked under SpecElement)             *)
(***************************************************************************)
CellsAgree(e) ==
    /\ IsSome(id[e]) <=> mounts[e] = 1
    /\ IsSome(parent[e]) <=> mounts[e] = 1
    /\ mounts[e] <= 1

KeepsValue(cell, e) == IsSome(cell[e]) => cell'[e] = cell[e]

\* C8: the id and parent cells are None at construction, a mount sets each of
\* them once, and a second assignment is detected instead of overwriting: a
\* cell that holds Some(x) keeps x for the rest of the pass.
C8_CellsAssignedOnce ==
    /\ [](\A e \in Elements : CellsAgree(e))
    /\ [][pass' = pass => \A e \in Elements : KeepsValue(id, e) /\ KeepsValue(parent, e)]_vars

C8_Witness ==
    /\ IsSome(mount_error)
    /\ IsSome(id[Unwrap(mount_error)])
    /\ IsSome(parent[Unwrap(mount_error)])
    /\ pass = 2

====
